---- MODULE Spec2Model ----
(***************************************************************************)
(* Model of common/etc/nginx/include/aws_common.js of the NGINX S3         *)
(* gateway: the credential cache (readCredentials, writeCredentials,       *)
(* securityToken and their two backends), the pure string functions of     *)
(* the signature engine (signedHeaders, buildCanonicalRequest,             *)
(* splitCachedValues, the date formatting) and the two credential fetches  *)
(* (fetchEC2RoleCredentials, fetchWebIdentityCredentials) run as           *)
(* cooperative tasks that suspend at ngx.fetch.                            *)
(*                                                                         *)
(* JavaScript values are records tagged by t: undefined, null, a string    *)
(* (v is its sequence of characters; a multi-character element stands for  *)
(* a run of characters that contains no delimiter) or a credentials        *)
(* object (f maps the four field names to values, undefined for a missing  *)
(* property).  A JSON text is a sequence of lexemes.                       *)
(***************************************************************************)
EXTENDS Integers, Sequences, FiniteSets, TLC

VARIABLES
    env,      \* process.env: AWS_ACCESS_KEY_ID and AWS_SECRET_ACCESS_KEY
    keyval,   \* r.variables.instance_credential_json, the shared variable
    file,     \* the credentials cache file at _credentialsTempFile()
    written,  \* history: per backend, the credentials of its last successful
              \* write
    last,     \* record of the most recent call: operation, inputs, outcome
    tasks,    \* the running fetches: per task its position, the requests it
              \* issued, what it received and its outcome
    world,    \* what is outside the process: the answers the metadata
              \* service and STS can give, and the web identity token file
    NOW,      \* the module constant NOW, the timestamp taken at load
    clock,    \* the system clock
    returned  \* history: the values awsHeaderDate and signedDate returned

vars == <<env, keyval, file, written, last, tasks, world, NOW, clock, returned>>

---------------------------------------------------------------------------
(* Bounds *)

\* longest input string given to splitCachedValues
MaxLen == 3

---------------------------------------------------------------------------
(* JavaScript values *)

Undefined == [t |-> "undefined"]
Null == [t |-> "null"]
Str(s) == [t |-> "str", v |-> s]
EmptyStr == Str(<<>>)

\* ToBoolean(x) for the values of the model: undefined, null and the empty
\* string are falsy, every object and every non-empty string is truthy
Truthy(x) ==
    CASE x.t = "undefined" -> FALSE
      [] x.t = "null" -> FALSE
      [] x.t = "str" -> Len(x.v) > 0
      [] OTHER -> TRUE

Fields == <<"accessKeyId", "secretAccessKey", "sessionToken", "expiration">>
FieldSet == {Fields[i] : i \in 1..Len(Fields)}

Obj(a, s, tok, exp) ==
    [t |-> "obj",
     f |-> [accessKeyId |-> a, secretAccessKey |-> s,
            sessionToken |-> tok, expiration |-> exp]]

EmptyObj == Obj(Undefined, Undefined, Undefined, Undefined)

\* property access x.name: a TypeError on undefined and null, undefined on
\* a string, the property's value on an object
GetField(x, name) ==
    CASE x.t \in {"undefined", "null"} -> [raised |-> TRUE, err |-> "TypeError"]
      [] x.t = "obj" -> [raised |-> FALSE, val |-> x.f[name]]
      [] OTHER -> [raised |-> FALSE, val |-> Undefined]

---------------------------------------------------------------------------
(* JSON.stringify and JSON.parse on lexeme sequences *)

Lex(p) == [lex |-> p]
LexStr(s) == [lex |-> "str", v |-> s]

JSONvalue(x) == IF x.t = "null" THEN Lex("null") ELSE LexStr(x.v)

RECURSIVE JSONmembers(_, _, _)
JSONmembers(o, i, acc) ==
    IF i > Len(Fields) THEN acc
    ELSE LET x == o.f[Fields[i]] IN
         IF x.t = "undefined" THEN JSONmembers(o, i + 1, acc)
         ELSE JSONmembers(o, i + 1,
                  acc \o (IF acc = <<>> THEN <<>> ELSE <<Lex(",")>>)
                      \o <<LexStr(<<Fields[i]>>), Lex(":"), JSONvalue(x)>>)

\* JSON.stringify(o) of an object: properties in insertion order, the ones
\* holding undefined left out
JSONstringifyNullFieldsDropped(o) ==
    <<Lex("{")>>
    \o JSONmembers([o EXCEPT !.f = [n \in FieldSet |->
                       IF o.f[n].t = "null" THEN Undefined ELSE o.f[n]]],
                   1, <<>>)
    \o <<Lex("}")>>

JSONstringify(o) == <<Lex("{")>> \o JSONmembers(o, 1, <<>>) \o <<Lex("}")>>

SyntaxError == [raised |-> TRUE, err |-> "SyntaxError"]

IsKey(l) == l.lex = "str" /\ Len(l.v) = 1 /\ l.v[1] \in FieldSet

RECURSIVE ParseMembers(_, _, _)
ParseMembers(body, i, o) ==
    IF i + 2 > Len(body) THEN SyntaxError
    ELSE IF ~(IsKey(body[i]) /\ body[i + 1].lex = ":"
              /\ body[i + 2].lex \in {"str", "null"}) THEN SyntaxError
    ELSE LET x == IF body[i + 2].lex = "null" THEN Null ELSE Str(body[i + 2].v)
             o2 == [o EXCEPT !.f[body[i].v[1]] = x]
         IN  IF i + 2 = Len(body) THEN [raised |-> FALSE, val |-> o2]
             ELSE IF body[i + 3].lex = "," THEN ParseMembers(body, i + 4, o2)
             ELSE SyntaxError

\* JSON.parse(text): the decoded object, or a SyntaxError
JSONparse(text) ==
    IF Len(text) < 2 THEN SyntaxError
    ELSE IF text[1].lex # "{" \/ text[Len(text)].lex # "}" THEN SyntaxError
    ELSE IF Len(text) = 2 THEN [raised |-> FALSE, val |-> EmptyObj]
    ELSE ParseMembers(SubSeq(text, 2, Len(text) - 1), 1, EmptyObj)

---------------------------------------------------------------------------
(* Results of a call: a returned value or a raised error, together with    *)
(* the state of the two backends after the call and the backends the call  *)
(* read and wrote                                                          *)

Return(x, kv, fl, rd, wr) ==
    [raised |-> FALSE, val |-> x, err |-> "none",
     keyval |-> kv, file |-> fl, reads |-> rd, writes |-> wr]

Raise(e, kv, fl, rd, wr) ==
    [raised |-> TRUE, val |-> Undefined, err |-> e,
     keyval |-> kv, file |-> fl, reads |-> rd, writes |-> wr]

---------------------------------------------------------------------------
(* The credential cache *)

StaticEnvEitherSet(e) ==
    Truthy(e.AWS_ACCESS_KEY_ID) \/ Truthy(e.AWS_SECRET_ACCESS_KEY)

\* process.env[a] && process.env[b] for the two static credential values
StaticEnv(e) ==
    Truthy(e.AWS_ACCESS_KEY_ID) /\ Truthy(e.AWS_SECRET_ACCESS_KEY)

\* "variables" in r && r.variables.cache_instance_credentials_enabled == 1
UsesKeyValStore(r) ==
    r.hasVariables /\ r.flag.t = "str" /\ r.flag.v = <<"1">>

_readCredentialsFromKeyValStoreThrowing(r, kv, fl) ==
    IF ~Truthy(kv) THEN Return(Undefined, kv, fl, {"keyval"}, {})
    ELSE LET p == JSONparse(kv.v) IN
         IF p.raised THEN Raise(p.err, kv, fl, {"keyval"}, {})
         ELSE Return(p.val, kv, fl, {"keyval"}, {})

_readCredentialsFromKeyValStore(r, kv, fl) ==
    IF ~Truthy(kv) THEN Return(Undefined, kv, fl, {"keyval"}, {})
    ELSE LET p == JSONparse(kv.v) IN
         IF p.raised THEN Return(Undefined, kv, fl, {"keyval"}, {})
         ELSE Return(p.val, kv, fl, {"keyval"}, {})

_readCredentialsFromFileCatchAll(kv, fl) ==
    CASE fl.st = "ENOENT" -> Return(Undefined, kv, fl, {"file"}, {})
      [] fl.st = "EACCES" -> Return(Undefined, kv, fl, {"file"}, {})
      [] OTHER ->
            LET p == JSONparse(fl.data) IN
            IF p.raised THEN Return(Undefined, kv, fl, {"file"}, {})
            ELSE Return(p.val, kv, fl, {"file"}, {})

\* fs.readFileSync fails with e.code ENOENT or EACCES; JSON.parse fails with
\* a SyntaxError, which has no code; only ENOENT is caught
_readCredentialsFromFile(kv, fl) ==
    CASE fl.st = "ENOENT" -> Return(Undefined, kv, fl, {"file"}, {})
      [] fl.st = "EACCES" -> Raise("EACCES", kv, fl, {"file"}, {})
      [] OTHER ->
            LET p == JSONparse(fl.data) IN
            IF p.raised THEN Raise(p.err, kv, fl, {"file"}, {})
            ELSE Return(p.val, kv, fl, {"file"}, {})

\* an expiration that lies before the load of the module
Expired(x) == x = Str(<<"2000-01-01T00:00:00Z">>)

readCredentialsDroppingExpired(e, r, kv, fl) ==
    IF StaticEnv(e)
    THEN Return(Obj(e.AWS_ACCESS_KEY_ID, e.AWS_SECRET_ACCESS_KEY, Null, Null),
                kv, fl, {}, {})
    ELSE LET c == IF UsesKeyValStore(r)
                  THEN _readCredentialsFromKeyValStore(r, kv, fl)
                  ELSE _readCredentialsFromFile(kv, fl)
         IN  IF ~c.raised /\ c.val.t = "obj" /\ Expired(c.val.f.expiration)
             THEN Return(Undefined, kv, fl, c.reads, {})
             ELSE c

readCredentialsCacheFirst(e, r, kv, fl) ==
    IF UsesKeyValStore(r) THEN _readCredentialsFromKeyValStore(r, kv, fl)
    ELSE _readCredentialsFromFile(kv, fl)

readCredentials(e, r, kv, fl) ==
    IF StaticEnv(e)
    THEN Return(Obj(e.AWS_ACCESS_KEY_ID, e.AWS_SECRET_ACCESS_KEY, Null, Null),
                kv, fl, {}, {})
    ELSE IF UsesKeyValStore(r) THEN _readCredentialsFromKeyValStore(r, kv, fl)
    ELSE _readCredentialsFromFile(kv, fl)

securityToken(e, r, kv, fl) ==
    LET c == readCredentials(e, r, kv, fl) IN
    IF c.raised THEN c
    ELSE LET t == GetField(c.val, "sessionToken") IN
         IF t.raised THEN Raise(t.err, c.keyval, c.file, c.reads, c.writes)
         ELSE IF Truthy(t.val)
              THEN Return(t.val, c.keyval, c.file, c.reads, c.writes)
              ELSE Return(EmptyStr, c.keyval, c.file, c.reads, c.writes)

_writeCredentialsToKeyValStoreAndFile(r, credentials, kv, fl) ==
    Return(Undefined, Str(JSONstringify(credentials)),
           [st |-> "ok", data |-> JSONstringify(credentials)], {}, {"keyval"})

_writeCredentialsToKeyValStore(r, credentials, kv, fl) ==
    Return(Undefined, Str(JSONstringify(credentials)), fl, {}, {"keyval"})

_writeCredentialsToFileInPlace(credentials, kv, fl) ==
    IF fl.st = "EACCES" THEN Raise("EACCES", kv, fl, {}, {"file"})
    ELSE IF fl.st = "ok" /\ ~JSONparse(fl.data).raised
    THEN LET old == JSONparse(fl.data).val IN
         Return(Undefined, kv,
                [st |-> "ok",
                 data |-> JSONstringify(
                     Obj(credentials.f.accessKeyId, old.f.secretAccessKey,
                         credentials.f.sessionToken, old.f.expiration))],
                {}, {"file"})
    ELSE Return(Undefined, kv,
                [st |-> "ok", data |-> JSONstringify(credentials)],
                {}, {"file"})

\* fs.writeFileSync creates or overwrites the file, and fails with EACCES
\* when the path is not writable
_writeCredentialsToFile(credentials, kv, fl) ==
    IF fl.st = "EACCES" THEN Raise("EACCES", kv, fl, {}, {"file"})
    ELSE Return(Undefined, kv,
                [st |-> "ok", data |-> JSONstringify(credentials)],
                {}, {"file"})

writeCredentialsNoEnvCheck(e, r, credentials, kv, fl) ==
    IF ~Truthy(credentials)
    THEN Raise("Cannot write invalid credentials", kv, fl, {}, {})
    ELSE IF UsesKeyValStore(r)
         THEN _writeCredentialsToKeyValStore(r, credentials, kv, fl)
         ELSE _writeCredentialsToFile(credentials, kv, fl)

writeCredentialsNoValidation(e, r, credentials, kv, fl) ==
    IF StaticEnv(e) THEN Return(Undefined, kv, fl, {}, {})
    ELSE IF credentials.t # "obj"
    THEN IF UsesKeyValStore(r)
         THEN Return(Undefined, Str(<<Lex("null")>>), fl, {}, {"keyval"})
         ELSE IF fl.st = "EACCES" THEN Raise("EACCES", kv, fl, {}, {"file"})
         ELSE Return(Undefined, kv, [st |-> "ok", data |-> <<Lex("null")>>],
                     {}, {"file"})
    ELSE IF UsesKeyValStore(r)
         THEN _writeCredentialsToKeyValStore(r, credentials, kv, fl)
         ELSE _writeCredentialsToFile(credentials, kv, fl)

writeCredentials(e, r, credentials, kv, fl) ==
    IF StaticEnv(e) THEN Return(Undefined, kv, fl, {}, {})
    ELSE IF ~Truthy(credentials)
    THEN Raise("Cannot write invalid credentials", kv, fl, {}, {})
    ELSE IF UsesKeyValStore(r)
         THEN _writeCredentialsToKeyValStore(r, credentials, kv, fl)
         ELSE _writeCredentialsToFile(credentials, kv, fl)

---------------------------------------------------------------------------
(* Inputs and initial contents *)

\* process.env at start: neither value set, only one of them set (the other
\* unset or empty), both set
Environments ==
    {[AWS_ACCESS_KEY_ID |-> k, AWS_SECRET_ACCESS_KEY |-> s] :
         k \in {Undefined, Str(<<"AKIDENV">>)},
         s \in {EmptyStr, Str(<<"envsecret">>)}}

\* the request object r: without a variables property, or with the flag
\* cache_instance_credentials_enabled unset, "0" or "1"
Requests ==
    {[hasVariables |-> FALSE, flag |-> Undefined]}
    \cup {[hasVariables |-> TRUE, flag |-> x] :
              x \in {Str(<<"0">>), Str(<<"1">>)}}

CredObjects ==
    {Obj(Str(<<"AKIA">>), Str(<<"secret">>), Str(<<"tok">>),
         Str(<<"2030-01-01T00:00:00Z">>)),
     Obj(Str(<<"AKIA">>), Str(<<"secret">>), Str(<<"tok">>),
         Str(<<"2000-01-01T00:00:00Z">>)),
     Obj(Str(<<"AKIA">>), Str(<<"secret">>), EmptyStr, Undefined),
     Obj(Str(<<"AKIA">>), Str(<<"secret">>), Null, Null),
     Obj(Str(<<"AKIA">>), Str(<<"secret">>), Undefined, Undefined)}

\* arguments given to writeCredentials: credentials objects, the empty
\* object, and the falsy values undefined, null and ""
CredArgs == CredObjects \cup {EmptyObj, Undefined, Null, EmptyStr}

ValidTexts ==
    {JSONstringify(Obj(Str(<<"AKIA0">>), Str(<<"secret0">>),
                       Str(<<"tok0">>), Str(<<"2030-01-01T00:00:00Z">>))),
     JSONstringify(Obj(Str(<<"AKIA0">>), Str(<<"secret0">>),
                       Undefined, Undefined))}

\* texts JSON.parse rejects: truncated, a member without a value, not JSON
CorruptTexts ==
    {<<Lex("{"), LexStr(<<"accessKeyId">>), Lex(":"), Lex("}")>>,
     <<Lex("junk")>>}

KeyvalContents ==
    {Undefined, EmptyStr} \cup {Str(x) : x \in ValidTexts \cup CorruptTexts}

FileContents ==
    {[st |-> "ENOENT"], [st |-> "EACCES"]}
    \cup {[st |-> "ok", data |-> x] :
              x \in ValidTexts \cup CorruptTexts \cup {<<>>}}

\* what a backend holds: absent, valid (decodable), corrupt, noaccess
KeyvalKind(kv) ==
    CASE kv.t = "undefined" -> "absent"
      [] kv.v = <<>> -> "absent"
      [] kv.v \in CorruptTexts -> "corrupt"
      [] OTHER -> "valid"

FileKind(fl) ==
    CASE fl.st = "ENOENT" -> "absent"
      [] fl.st = "EACCES" -> "noaccess"
      [] fl.data \in CorruptTexts \cup {<<>>} -> "corrupt"
      [] OTHER -> "valid"

NoWrite == [done |-> FALSE]
Wrote(c) == [done |-> TRUE, cred |-> c]

NoCall == [op |-> "none"]

\* no fetch is running and nothing outside the process is reachable
NoTasks == <<>>
NoWorld == [reachable |-> FALSE]

\* a process whose load time plays no part: loaded at the epoch, the clock
\* standing still, no date asked for
Epoch ==
    [year |-> 1970, month |-> 0, date |-> 1,
     hours |-> 0, minutes |-> 0, seconds |-> 0]

NoDates == [awsHeaderDate |-> {}, signedDate |-> {}]

Clockless == NOW = Epoch /\ clock = Epoch /\ returned = NoDates

---------------------------------------------------------------------------
(* The credential cache as a state machine: the environment is fixed when  *)
(* the process starts, the backends hold whatever an earlier run left      *)

Init ==
    /\ env \in Environments
    /\ keyval \in KeyvalContents
    /\ file \in FileContents
    /\ written = [keyval |-> NoWrite, file |-> NoWrite]
    /\ last = NoCall
    /\ tasks = NoTasks
    /\ world = NoWorld
    /\ Clockless

\* the record of a call: its inputs, its result, and whether it changed the
\* shared variable or the file
Call(op, r, c, res) ==
    [op |-> op, r |-> r, cred |-> c, res |-> res,
     keyvalChanged |-> res.keyval # keyval, fileChanged |-> res.file # file]

CallReadCredentials ==
    \E r \in Requests :
        LET res == readCredentials(env, r, keyval, file) IN
        /\ keyval' = res.keyval
        /\ file' = res.file
        /\ last' = Call("readCredentials", r, Undefined, res)
        /\ UNCHANGED <<env, written, tasks, world, NOW, clock, returned>>

CallSecurityToken ==
    \E r \in Requests :
        LET res == securityToken(env, r, keyval, file) IN
        /\ keyval' = res.keyval
        /\ file' = res.file
        /\ last' = Call("securityToken", r, Undefined, res)
        /\ UNCHANGED <<env, written, tasks, world, NOW, clock, returned>>

CallWriteCredentials ==
    \E r \in Requests, c \in CredArgs :
        LET res == writeCredentials(env, r, c, keyval, file) IN
        /\ keyval' = res.keyval
        /\ file' = res.file
        /\ written' =
              [keyval |-> IF "keyval" \in res.writes /\ ~res.raised
                          THEN Wrote(c)
                          ELSE written.keyval,
               file |-> IF "file" \in res.writes /\ ~res.raised
                        THEN Wrote(c)
                        ELSE written.file]
        /\ last' = Call("writeCredentials", r, c, res)
        /\ UNCHANGED <<env, tasks, world, NOW, clock, returned>>

Next == CallReadCredentials \/ CallSecurityToken \/ CallWriteCredentials

Spec == Init /\ [][Next]_vars

---------------------------------------------------------------------------
(* The signature engine: strings are sequences of characters, where an     *)
(* element other than "\n", ":" and ";" stands for a run of characters     *)
(* that contains none of these three                                       *)

NL == <<"\n">>

EMPTY_PAYLOAD_HASH ==
    <<"e3b0c44298fc1c149afbf4c8996fb92427ae41e4649b934ca495991b7852b855">>

DEFAULT_SIGNED_HEADERS ==
    <<"host", ";", "x-amz-content-sha256", ";", "x-amz-date">>

signedHeadersUnlessUndefined(sessionToken) ==
    IF sessionToken.t # "undefined"
    THEN DEFAULT_SIGNED_HEADERS \o <<";", "x-amz-security-token">>
    ELSE DEFAULT_SIGNED_HEADERS

signedHeaders(sessionToken) ==
    IF Truthy(sessionToken)
    THEN DEFAULT_SIGNED_HEADERS \o <<";", "x-amz-security-token">>
    ELSE DEFAULT_SIGNED_HEADERS

\* the local variable canonicalHeaders of buildCanonicalRequest
canonicalHeaders(host, amzDatetime, sessionToken) ==
    <<"host", ":">> \o host \o NL
    \o <<"x-amz-content-sha256", ":">> \o EMPTY_PAYLOAD_HASH \o NL
    \o <<"x-amz-date", ":">> \o amzDatetime \o NL
    \o (IF Truthy(sessionToken)
        THEN <<"x-amz-security-token", ":">> \o sessionToken.v \o NL
        ELSE <<>>)

buildCanonicalRequest(method, uri, queryParams, host, amzDatetime, sessionToken) ==
    method \o NL
    \o uri \o NL
    \o (IF Len(queryParams) > 0 THEN queryParams \o NL ELSE <<>>)
    \o canonicalHeaders(host, amzDatetime, sessionToken) \o NL
    \o signedHeaders(sessionToken) \o NL
    \o EMPTY_PAYLOAD_HASH

\* cached.indexOf(':', 0): zero-based position of the first ':', or -1
RECURSIVE IndexOfFrom(_, _, _)
IndexOfFrom(str, c, i) ==
    IF i >= Len(str) THEN -1
    ELSE IF str[i + 1] = c THEN i
    ELSE IndexOfFrom(str, c, i + 1)

\* str.substring(from, to) with zero-based bounds, to exclusive
Substring(str, from, to) == SubSeq(str, from + 1, to)

splitCachedValuesAtEveryColon(cached) ==
    LET matchedPos == IndexOfFrom(cached, ":", 0)
        nextPos == IndexOfFrom(cached, ":", matchedPos + 1)
    IN  IF matchedPos < 0 \/ matchedPos + 1 > Len(cached) THEN <<>>
        ELSE <<Substring(cached, 0, matchedPos),
               Substring(cached, matchedPos + 1,
                         IF nextPos < 0 THEN Len(cached) ELSE nextPos)>>

splitCachedValues(cached) ==
    LET matchedPos == IndexOfFrom(cached, ":", 0) IN
    IF matchedPos < 0 \/ matchedPos + 1 > Len(cached) THEN <<>>
    ELSE <<Substring(cached, 0, matchedPos),
           Substring(cached, matchedPos + 1, Len(cached))>>

\* mod_hmac.createHmac('sha256', key).update(data).digest(): the digest is
\* the term of its key and its data, so two digests are equal only when
\* their keys and their data are
createHmac(key, data) == [t |-> "hmac", key |-> key, data |-> data]

buildSigningKeyHashServiceFirst(kSecret, eightDigitDateStr, service, region) ==
    LET kDate == createHmac(Str(<<"AWS4">> \o kSecret), eightDigitDateStr)
        kService == createHmac(kDate, service)
        kRegion == createHmac(kService, region)
        kSigning == createHmac(kRegion, <<"aws4_request">>)
    IN  kSigning

buildSigningKeyHash(kSecret, eightDigitDateStr, service, region) ==
    LET kDate == createHmac(Str(<<"AWS4">> \o kSecret), eightDigitDateStr)
        kRegion == createHmac(kDate, region)
        kService == createHmac(kRegion, service)
        kSigning == createHmac(kService, <<"aws4_request">>)
    IN  kSigning

\* the decimal digits of a non-negative number, as String(num) gives them
DigitChars == <<"0", "1", "2", "3", "4", "5", "6", "7", "8", "9">>

RECURSIVE NumberToString(_)
NumberToString(num) ==
    IF num < 10 THEN <<DigitChars[num + 1]>>
    ELSE Append(NumberToString(num \div 10), DigitChars[(num % 10) + 1])

\* str.substr(start): a negative start counts from the end of the string and
\* is clamped to its beginning
Substr(str, start) ==
    LET from == IF start < 0
                THEN (IF Len(str) + start < 0 THEN 0 ELSE Len(str) + start)
                ELSE start
    IN  SubSeq(str, from + 1, Len(str))

_padWithLeadingZeros(num, size) ==
    LET s == <<"0">> \o NumberToString(num) IN
    Substr(s, Len(s) - size)

\* a Date is the record of its UTC fields; month is zero-based as
\* getUTCMonth returns it
eightDigitDate(timestamp) ==
    LET year == timestamp.year
        month == timestamp.month + 1
        day == timestamp.date
    IN  _padWithLeadingZeros(year, 4)
        \o _padWithLeadingZeros(month, 2)
        \o _padWithLeadingZeros(day, 2)

signedDateTime(timestamp, eightDigitDateStr) ==
    eightDigitDateStr
    \o <<"T">> \o _padWithLeadingZeros(timestamp.hours, 2)
    \o _padWithLeadingZeros(timestamp.minutes, 2)
    \o _padWithLeadingZeros(timestamp.seconds, 2)
    \o <<"Z">>

---------------------------------------------------------------------------
(* The signature engine's functions applied to bounded inputs *)

Methods == {<<"GET">>, <<"HEAD">>}
Uris == {<<"/">>, <<"/dir/a.txt">>}
QueryParams == {<<>>, <<"list-type=2&prefix=a">>}
Hosts == {<<"bucket.s3.amazonaws.com">>, <<"s3.local", ":", "9000">>}
AmzDatetimes == {<<"20240101T000000Z">>}
SessionTokens == {Undefined, Null, EmptyStr, Str(<<"tok">>)}

CachedChars == {":", "20240101", "abcd"}

\* every string of at most n elements of CachedChars
RECURSIVE StringsUpTo(_)
StringsUpTo(n) ==
    IF n = 0 THEN {<<>>}
    ELSE LET shorter == StringsUpTo(n - 1) IN
         shorter \cup {Append(x, c) : x \in shorter, c \in CachedChars}

CachedInputs == StringsUpTo(MaxLen)

\* numbers given to _padWithLeadingZeros with the size they are padded to
PadInputs ==
    {<<n, 2>> : n \in {0, 1, 9, 10, 31, 59}}
    \cup {<<n, 4>> : n \in {0, 5, 99, 100, 999, 2024, 9999}}

\* UTC timestamps with a year from 0 to 9999
Timestamps ==
    {[year |-> y, month |-> mo, date |-> d, hours |-> h,
      minutes |-> 5, seconds |-> 59] :
         y \in {0, 5, 99, 100, 999, 2024, 9999}, mo \in {0, 11},
         d \in {1, 31}, h \in {0, 23}}

InitSig ==
    /\ env = [AWS_ACCESS_KEY_ID |-> Undefined, AWS_SECRET_ACCESS_KEY |-> EmptyStr]
    /\ keyval = Undefined
    /\ file = [st |-> "ENOENT"]
    /\ written = [keyval |-> NoWrite, file |-> NoWrite]
    /\ last = NoCall
    /\ tasks = NoTasks
    /\ world = NoWorld
    /\ Clockless

CallSignedHeaders ==
    \E tok \in SessionTokens :
        /\ last' = [op |-> "signedHeaders", sessionToken |-> tok,
                    ret |-> signedHeaders(tok)]
        /\ UNCHANGED <<env, keyval, file, written, tasks, world, NOW, clock, returned>>

CallBuildCanonicalRequest ==
    \E m \in Methods, u \in Uris, q \in QueryParams, h \in Hosts,
       d \in AmzDatetimes, tok \in SessionTokens :
        /\ last' = [op |-> "buildCanonicalRequest", method |-> m, uri |-> u,
                    queryParams |-> q, host |-> h, amzDatetime |-> d,
                    sessionToken |-> tok,
                    ret |-> buildCanonicalRequest(m, u, q, h, d, tok)]
        /\ UNCHANGED <<env, keyval, file, written, tasks, world, NOW, clock, returned>>

CallSplitCachedValues ==
    \E cached \in CachedInputs :
        /\ last' = [op |-> "splitCachedValues", cached |-> cached,
                    ret |-> splitCachedValues(cached)]
        /\ UNCHANGED <<env, keyval, file, written, tasks, world, NOW, clock, returned>>

Secrets == {<<"wJalrXUtnFEMI">>, <<"secret">>}
Dates == {<<"20150830">>, <<"20240101">>}
Services == {<<"s3">>, <<"iam">>}
Regions == {<<"us-east-1">>, <<"eu-west-1">>}

CallBuildSigningKeyHash ==
    \E kSecret \in Secrets, d \in Dates, service \in Services,
       region \in Regions :
        /\ last' = [op |-> "buildSigningKeyHash", kSecret |-> kSecret,
                    eightDigitDate |-> d, service |-> service,
                    region |-> region,
                    ret |-> buildSigningKeyHash(kSecret, d, service, region)]
        /\ UNCHANGED <<env, keyval, file, written, tasks, world, NOW, clock,
                       returned>>

CallPadWithLeadingZeros ==
    \E p \in PadInputs :
        /\ last' = [op |-> "_padWithLeadingZeros", num |-> p[1], size |-> p[2],
                    ret |-> _padWithLeadingZeros(p[1], p[2])]
        /\ UNCHANGED <<env, keyval, file, written, tasks, world, NOW, clock, returned>>

CallEightDigitDate ==
    \E ts \in Timestamps :
        /\ last' = [op |-> "eightDigitDate", timestamp |-> ts,
                    ret |-> eightDigitDate(ts)]
        /\ UNCHANGED <<env, keyval, file, written, tasks, world, NOW, clock, returned>>

CallSignedDateTime ==
    \E ts \in Timestamps :
        /\ last' = [op |-> "signedDateTime", timestamp |-> ts,
                    ret |-> signedDateTime(ts, eightDigitDate(ts))]
        /\ UNCHANGED <<env, keyval, file, written, tasks, world, NOW, clock, returned>>

NextSig ==
    \/ CallSignedHeaders \/ CallBuildCanonicalRequest \/ CallSplitCachedValues
    \/ CallPadWithLeadingZeros \/ CallEightDigitDate \/ CallSignedDateTime
    \/ CallBuildSigningKeyHash

SpecSig == InitSig /\ [][NextSig]_vars

---------------------------------------------------------------------------
(* The signing dates.  NOW is set once, when the module is loaded; the     *)
(* clock goes on.                                                          *)

DayNames == <<"Sun", "Mon", "Tue", "Wed", "Thu", "Fri", "Sat">>

MonthNames ==
    <<"Jan", "Feb", "Mar", "Apr", "May", "Jun",
      "Jul", "Aug", "Sep", "Oct", "Nov", "Dec">>

MonthOffsets == <<0, 3, 2, 5, 0, 3, 5, 1, 4, 6, 2, 4>>

\* the day of the week of a UTC date, 0 for Sunday
UTCDay(timestamp) ==
    LET m == timestamp.month + 1
        y == IF m < 3 THEN timestamp.year - 1 ELSE timestamp.year
    IN  (y + (y \div 4) - (y \div 100) + (y \div 400)
           + MonthOffsets[m] + timestamp.date) % 7

TwoDigits(n) ==
    IF n < 10 THEN <<"0">> \o NumberToString(n) ELSE NumberToString(n)

\* Date.prototype.toUTCString for a year of four digits:
\* 'Www, dd Mmm yyyy hh:mm:ss GMT'
toUTCString(timestamp) ==
    <<DayNames[UTCDay(timestamp) + 1], ",", " ">>
    \o TwoDigits(timestamp.date) \o <<" ", MonthNames[timestamp.month + 1], " ">>
    \o NumberToString(timestamp.year) \o <<" ">>
    \o TwoDigits(timestamp.hours) \o <<":">>
    \o TwoDigits(timestamp.minutes) \o <<":">>
    \o TwoDigits(timestamp.seconds) \o <<" ", "GMT">>

awsHeaderDateAtCall(now) == signedDateTime(clock, eightDigitDate(clock))

awsHeaderDate(now) == signedDateTime(now, eightDigitDate(now))

signedDate(now) == toUTCString(now)

\* the times the clock can show: from 2024 on, in four-digit years
ClockTimes == {ts \in Timestamps : ts.year >= 1970}

\* the order of times: by the hour, counted with months of 31 days, then by
\* the second of the hour
HourOf(ts) == ((ts.year * 12 + ts.month) * 31 + ts.date) * 24 + ts.hours

SecondOfHour(ts) == ts.minutes * 60 + ts.seconds

Later(a, b) ==
    \/ HourOf(a) > HourOf(b)
    \/ HourOf(a) = HourOf(b) /\ SecondOfHour(a) > SecondOfHour(b)

\* const NOW = new Date() at load
InitDate ==
    /\ env = [AWS_ACCESS_KEY_ID |-> Undefined,
              AWS_SECRET_ACCESS_KEY |-> EmptyStr]
    /\ keyval = Undefined
    /\ file = [st |-> "ENOENT"]
    /\ written = [keyval |-> NoWrite, file |-> NoWrite]
    /\ last = NoCall
    /\ tasks = NoTasks
    /\ world = NoWorld
    /\ clock \in ClockTimes
    /\ NOW = clock
    /\ returned = NoDates

Tick ==
    /\ \E ts \in ClockTimes :
           /\ Later(ts, clock)
           /\ clock' = ts
    /\ UNCHANGED <<env, keyval, file, written, last, tasks, world, NOW,
                   returned>>

CallAwsHeaderDate ==
    LET ret == awsHeaderDate(NOW) IN
    /\ last' = [op |-> "awsHeaderDate", at |-> clock, ret |-> ret]
    /\ returned' = [returned EXCEPT !.awsHeaderDate = @ \cup {ret}]
    /\ UNCHANGED <<env, keyval, file, written, tasks, world, NOW, clock>>

CallSignedDate ==
    LET ret == signedDate(NOW) IN
    /\ last' = [op |-> "signedDate", at |-> clock, ret |-> ret]
    /\ returned' = [returned EXCEPT !.signedDate = @ \cup {ret}]
    /\ UNCHANGED <<env, keyval, file, written, tasks, world, NOW, clock>>

NextDate == Tick \/ CallAwsHeaderDate \/ CallSignedDate

SpecDate == InitDate /\ [][NextDate]_vars

---------------------------------------------------------------------------
(* The credential fetches.  An async function runs without interruption    *)
(* from one await of ngx.fetch to the next; a task records the requests it *)
(* issued (calls), what it received, and how it ended.                     *)

EC2_IMDS_TOKEN_ENDPOINT == <<"http://169.254.169.254/latest/api/token">>

EC2_IMDS_SECURITY_CREDENTIALS_ENDPOINT ==
    <<"http://169.254.169.254/latest/meta-data/iam/security-credentials/">>

NoDoc == [t |-> "nodoc"]
NoRequest == [hasVariables |-> FALSE, flag |-> Undefined]

NewTask ==
    [pc |-> "idle", fn |-> "none", r |-> NoRequest, calls |-> <<>>,
     answers |-> <<>>, token |-> Undefined, result |-> Undefined,
     err |-> "none", source |-> "none", wrote |-> NoWrite]

\* what an await of ngx.fetch and of the body yields: the fetch is rejected,
\* the body is a text, the body decodes to a JSON document, or it does not
Rejected(e) == [kind |-> "rejected", err |-> e]
Text(x) == [kind |-> "text", text |-> x]
Json(d) == [kind |-> "json", doc |-> d]
NotJson == [kind |-> "notjson"]

Request(url, method, headers) ==
    [url |-> url, method |-> method, headers |-> headers]

\* a throw inside the async function, or an await that rejects
Throw(tk, e) == [tk EXCEPT !.pc = "raised", !.err = e]

\* String(x) as a template literal inserts it
ToStr(x) == IF x.t = "str" THEN x.v ELSE <<x.t>>

\* fetchEC2RoleCredentials up to its first await: the token request
fetchEC2RoleCredentials(tk) ==
    [tk EXCEPT
        !.pc = "ec2_token", !.fn = "ec2",
        !.calls = <<Request(EC2_IMDS_TOKEN_ENDPOINT, "PUT",
                      {<<"x-aws-ec2-metadata-token-ttl-seconds", <<"21600">>>>})>>]

fetchEC2AfterTokenRetrying(tk, resp) ==
    IF resp.kind = "rejected"
    THEN IF Len(tk.calls) < 2
         THEN [tk EXCEPT !.calls = Append(@, tk.calls[1])]
         ELSE Throw(tk, resp.err)
    ELSE [tk EXCEPT
             !.pc = "ec2_role", !.token = Str(resp.text),
             !.calls = Append(@,
                 Request(EC2_IMDS_SECURITY_CREDENTIALS_ENDPOINT, "GET",
                         {<<"x-aws-ec2-metadata-token", resp.text>>}))]

\* ... from the token response to the role-name request
fetchEC2AfterToken(tk, resp) ==
    IF resp.kind = "rejected" THEN Throw(tk, resp.err)
    ELSE [tk EXCEPT
             !.pc = "ec2_role", !.token = Str(resp.text),
             !.calls = Append(@,
                 Request(EC2_IMDS_SECURITY_CREDENTIALS_ENDPOINT, "GET",
                         {<<"x-aws-ec2-metadata-token", resp.text>>}))]

fetchEC2AfterRoleNameUnchecked(tk, resp) ==
    IF resp.kind = "rejected" THEN Throw(tk, resp.err)
    ELSE [tk EXCEPT
             !.pc = "ec2_creds",
             !.calls = Append(@,
                 Request(EC2_IMDS_SECURITY_CREDENTIALS_ENDPOINT \o resp.text,
                         "GET", {<<"x-aws-ec2-metadata-token", tk.token.v>>}))]

\* ... from the role name to the request of the role's credentials
fetchEC2AfterRoleName(tk, resp) ==
    IF resp.kind = "rejected" THEN Throw(tk, resp.err)
    ELSE IF resp.text = <<>>
    THEN Throw(tk, "No credentials available for EC2 instance")
    ELSE [tk EXCEPT
             !.pc = "ec2_creds",
             !.calls = Append(@,
                 Request(EC2_IMDS_SECURITY_CREDENTIALS_ENDPOINT \o resp.text,
                         "GET", {<<"x-aws-ec2-metadata-token", tk.token.v>>}))]

fetchEC2AfterCredentialsSessionToken(tk, resp) ==
    CASE resp.kind = "rejected" -> Throw(tk, resp.err)
      [] resp.kind = "notjson" -> Throw(tk, "SyntaxError")
      [] OTHER ->
            LET creds == resp.doc IN
            [tk EXCEPT
                !.pc = "returned",
                !.result = Obj(creds.AccessKeyId, creds.SecretAccessKey,
                               creds.SessionToken, creds.Expiration)]

\* ... from the credential document to the return
fetchEC2AfterCredentials(tk, resp) ==
    CASE resp.kind = "rejected" -> Throw(tk, resp.err)
      [] resp.kind = "notjson" -> Throw(tk, "SyntaxError")
      [] OTHER ->
            LET creds == resp.doc IN
            [tk EXCEPT
                !.pc = "returned",
                !.result = Obj(creds.AccessKeyId, creds.SecretAccessKey,
                               creds.Token, creds.Expiration)]

stsEndpointGlobalFallback(e) ==
    IF Truthy(e.STS_ENDPOINT)
    THEN [raised |-> FALSE, val |-> e.STS_ENDPOINT.v]
    ELSE IF e.AWS_STS_REGIONAL_ENDPOINTS = Str(<<"regional">>)
            /\ Truthy(e.AWS_REGION)
         THEN [raised |-> FALSE,
               val |-> <<"https://sts.">> \o e.AWS_REGION.v
                       \o <<".amazonaws.com">>]
         ELSE [raised |-> FALSE, val |-> <<"https://sts.amazonaws.com">>]

stsEndpointRegionalFirst(e) ==
    IF e.AWS_STS_REGIONAL_ENDPOINTS = Str(<<"regional">>)
    THEN IF Truthy(e.AWS_REGION)
         THEN [raised |-> FALSE,
               val |-> <<"https://sts.">> \o e.AWS_REGION.v
                       \o <<".amazonaws.com">>]
         ELSE [raised |-> TRUE,
               err |-> "Missing required AWS_REGION env variable"]
    ELSE IF Truthy(e.STS_ENDPOINT)
         THEN [raised |-> FALSE, val |-> e.STS_ENDPOINT.v]
         ELSE [raised |-> FALSE, val |-> <<"https://sts.amazonaws.com">>]

\* the STS endpoint fetchWebIdentityCredentials resolves from process.env
stsEndpoint(e) ==
    IF Truthy(e.STS_ENDPOINT)
    THEN [raised |-> FALSE, val |-> e.STS_ENDPOINT.v]
    ELSE LET sts_regional == IF Truthy(e.AWS_STS_REGIONAL_ENDPOINTS)
                             THEN e.AWS_STS_REGIONAL_ENDPOINTS
                             ELSE Str(<<"global">>)
         IN  IF sts_regional = Str(<<"regional">>)
             THEN IF Truthy(e.AWS_REGION)
                  THEN [raised |-> FALSE,
                        val |-> <<"https://sts.">> \o e.AWS_REGION.v
                                \o <<".amazonaws.com">>]
                  ELSE [raised |-> TRUE,
                        err |-> "Missing required AWS_REGION env variable"]
             ELSE [raised |-> FALSE, val |-> <<"https://sts.amazonaws.com">>]

\* fetchWebIdentityCredentials up to its await: endpoint, token file, request
fetchWebIdentityCredentials(tk, e, w, roleSessionName) ==
    LET arn == e.AWS_ROLE_ARN
        name == IF Truthy(e.HOSTNAME) THEN e.HOSTNAME ELSE roleSessionName
        sts_endpoint == stsEndpoint(e)
        started == [tk EXCEPT !.fn = "web"]
    IN  IF sts_endpoint.raised THEN Throw(started, sts_endpoint.err)
        ELSE IF w.tokenFile.st # "ok" THEN Throw(started, w.tokenFile.st)
        ELSE LET params ==
                     <<"Version=2011-06-15&Action=AssumeRoleWithWebIdentity">>
                     \o <<"&RoleArn=">> \o ToStr(arn)
                     \o <<"&RoleSessionName=">> \o ToStr(name)
                     \o <<"&WebIdentityToken=">> \o w.tokenFile.data
             IN  [started EXCEPT
                     !.pc = "web_sts",
                     !.calls = <<Request(sts_endpoint.val \o <<"?">> \o params,
                                   "GET", {<<"Accept", <<"application/json">>>>})>>]

fetchWebIdentityAfterResponseSuspended(tk, resp) ==
    CASE resp.kind = "rejected" -> [tk EXCEPT !.pc = "suspended"]
      [] resp.kind = "notjson" -> Throw(tk, "SyntaxError")
      [] ~resp.doc.hasResult -> Throw(tk, "TypeError")
      [] OTHER ->
            LET creds == resp.doc.Credentials IN
            [tk EXCEPT
                !.pc = "returned",
                !.result = Obj(creds.AccessKeyId, creds.SecretAccessKey,
                               creds.SessionToken, creds.Expiration)]

\* ... from the STS response to the return
fetchWebIdentityAfterResponse(tk, resp) ==
    CASE resp.kind = "rejected" -> Throw(tk, resp.err)
      [] resp.kind = "notjson" -> Throw(tk, "SyntaxError")
      [] ~resp.doc.hasResult -> Throw(tk, "TypeError")
      [] OTHER ->
            LET creds == resp.doc.Credentials IN
            [tk EXCEPT
                !.pc = "returned",
                !.result = Obj(creds.AccessKeyId, creds.SecretAccessKey,
                               creds.SessionToken, creds.Expiration)]

---------------------------------------------------------------------------
(* What is outside the process *)

\* a credential document of the metadata service or of STS
Doc(a, s, tok, stok, exp) ==
    [AccessKeyId |-> a, SecretAccessKey |-> s, Token |-> tok,
     SessionToken |-> stok, Expiration |-> exp]

MetadataDocs ==
    {Doc(Str(<<"AKIA1">>), Str(<<"secret1">>), Str(<<"tok1">>), Str(<<"x1">>),
         Str(<<"2030-01-01T00:00:00Z">>)),
     Doc(Str(<<"AKIA2">>), Str(<<"secret2">>), Undefined, Undefined, Undefined)}

\* the body of an STS answer: AssumeRoleWithWebIdentityResponse with its
\* result and Credentials, or a JSON body without them
StsBodies ==
    {[hasResult |-> TRUE,
      Credentials |-> Doc(Str(<<"ASIA3">>), Str(<<"secret3">>), Str(<<"x3">>),
                          Str(<<"stok3">>), Str(<<"2031-01-01T00:00:00Z">>))],
     [hasResult |-> FALSE, Credentials |-> NoDoc]}

\* the ways ngx.fetch rejects
Rejections == {Rejected("connection refused"), Rejected("timed out")}

\* what each request can be answered with in world w
TokenResponses(w) == w.faults.token \cup {Text(x) : x \in w.tokens}

RoleNameResponses(w) == w.faults.role \cup {Text(x) : x \in w.roles}

CredentialResponses(w) == w.faults.creds \cup {Json(d) : d \in w.docs}

StsResponses(w) == w.faults.sts \cup {Json(b) : b \in w.stsBodies}

RoleSessionNames == {Str(<<"nginx-s3-gateway">>)}

\* process.env of a gateway that fetches: no static credentials, the STS
\* settings in every combination of unset, empty and set
FetchEnvironments ==
    {[AWS_ACCESS_KEY_ID |-> Undefined, AWS_SECRET_ACCESS_KEY |-> Undefined,
      AWS_ROLE_ARN |-> Str(<<"arn/role">>), HOSTNAME |-> h,
      STS_ENDPOINT |-> s, AWS_STS_REGIONAL_ENDPOINTS |-> g, AWS_REGION |-> reg] :
         h \in {Undefined, Str(<<"gateway-1">>)},
         s \in {Undefined, EmptyStr, Str(<<"https://sts.example.test">>)},
         g \in {Undefined, Str(<<"regional">>), Str(<<"global">>),
                Str(<<"legacy">>)},
         reg \in {Undefined, Str(<<"eu-west-1">>)}}

\* a world whose services fail, answer garbage or answer properly
FaultyWorlds ==
    {[reachable |-> TRUE,
      faults |-> [token |-> Rejections, role |-> Rejections,
                  creds |-> Rejections \cup {NotJson},
                  sts |-> Rejections \cup {NotJson}],
      tokens |-> {<<"T1">>, <<"T2">>}, roles |-> {<<>>, <<"my-role">>},
      docs |-> MetadataDocs, stsBodies |-> StsBodies, tokenFile |-> f] :
         f \in {[st |-> "ENOENT"], [st |-> "ok", data |-> <<"jwt">>]}}

---------------------------------------------------------------------------
(* One run of a fetch function, called directly *)

InitFetch ==
    /\ env \in FetchEnvironments
    /\ keyval = Undefined
    /\ file = [st |-> "ENOENT"]
    /\ written = [keyval |-> NoWrite, file |-> NoWrite]
    /\ last = NoCall
    /\ tasks = <<NewTask>>
    /\ world \in FaultyWorlds
    /\ Clockless

Step(t, tk) ==
    /\ tasks' = [tasks EXCEPT ![t] = tk]
    /\ UNCHANGED <<env, keyval, file, written, last, world, NOW, clock, returned>>

\* the task continues with the answer resp of its pending request
Answer(t, resp, tk) == Step(t, [tk EXCEPT !.answers = Append(@, resp)])

CallFetchEC2RoleCredentials ==
    \E t \in DOMAIN tasks :
        /\ tasks[t].pc = "idle"
        /\ Step(t, fetchEC2RoleCredentials(tasks[t]))

CallFetchWebIdentityCredentials ==
    \E t \in DOMAIN tasks, n \in RoleSessionNames :
        /\ tasks[t].pc = "idle"
        /\ Step(t, fetchWebIdentityCredentials(tasks[t], env, world, n))

TokenResponse ==
    \E t \in DOMAIN tasks :
        /\ tasks[t].pc = "ec2_token"
        /\ \E resp \in TokenResponses(world) :
               Answer(t, resp, fetchEC2AfterToken(tasks[t], resp))

RoleNameResponse ==
    \E t \in DOMAIN tasks :
        /\ tasks[t].pc = "ec2_role"
        /\ \E resp \in RoleNameResponses(world) :
               Answer(t, resp, fetchEC2AfterRoleName(tasks[t], resp))

CredentialResponse ==
    \E t \in DOMAIN tasks :
        /\ tasks[t].pc = "ec2_creds"
        /\ \E resp \in CredentialResponses(world) :
               Answer(t, resp, fetchEC2AfterCredentials(tasks[t], resp))

StsResponse ==
    \E t \in DOMAIN tasks :
        /\ tasks[t].pc = "web_sts"
        /\ \E resp \in StsResponses(world) :
               Answer(t, resp, fetchWebIdentityAfterResponse(tasks[t], resp))

Responses ==
    TokenResponse \/ RoleNameResponse \/ CredentialResponse \/ StsResponse

NextFetch ==
    \/ CallFetchEC2RoleCredentials \/ CallFetchWebIdentityCredentials
    \/ TokenResponse \/ RoleNameResponse \/ CredentialResponse \/ StsResponse

SpecFetch == InitFetch /\ [][NextFetch]_vars

\* every request issued is eventually answered or fails
SpecFetchFair == SpecFetch /\ WF_vars(Responses)

---------------------------------------------------------------------------
(* Resolutions as concurrent tasks.  The provider that orders the sources  *)
(* is not part of aws_common.js; it is taken from the design description:  *)
(* static configuration, then the cache, then a fetch, whose result is     *)
(* written through the cache before it is returned.                        *)

NumTasks == 2

\* the cache outcome of a step that touches no backend
CacheUntouched(kv, fl) == Return(Undefined, kv, fl, {}, {})

\* a resolution up to its first suspension: static credentials or a cache
\* hit end it; a miss or a failed cache read starts the fetch fn
resolve(tk, e, kv, fl, w, fn, roleSessionName) ==
    LET c == readCredentials(e, tk.r, kv, fl) IN
    IF StaticEnv(e)
    THEN [tk EXCEPT !.pc = "done", !.source = "static", !.result = c.val]
    ELSE IF ~c.raised /\ Truthy(c.val)
    THEN [tk EXCEPT !.pc = "done", !.source = "cache", !.result = c.val]
    ELSE LET fetching == [tk EXCEPT !.source = "fetch"] IN
         IF fn = "ec2" THEN fetchEC2RoleCredentials(fetching)
         ELSE fetchWebIdentityCredentials(fetching, e, w, roleSessionName)

resolveAfterFetchWithoutWrite(tk, e, kv, fl) ==
    [task |-> [tk EXCEPT !.pc = "done"], cache |-> CacheUntouched(kv, fl)]

\* a resolution from the return of its fetch: the write through the cache,
\* then the return
resolveAfterFetch(tk, e, kv, fl) ==
    LET w == writeCredentials(e, tk.r, tk.result, kv, fl) IN
    IF w.raised
    THEN [task |-> Throw(tk, w.err), cache |-> w]
    ELSE [task |-> [tk EXCEPT !.pc = "done", !.wrote = Wrote(tk.result)],
          cache |-> w]

\* a gateway without static credentials, and one with them
ResolveEnvironments ==
    {[AWS_ACCESS_KEY_ID |-> k, AWS_SECRET_ACCESS_KEY |-> k,
      AWS_ROLE_ARN |-> Str(<<"arn/role">>), HOSTNAME |-> Undefined,
      STS_ENDPOINT |-> Undefined, AWS_STS_REGIONAL_ENDPOINTS |-> Undefined,
      AWS_REGION |-> Undefined] :
         k \in {Undefined, Str(<<"static">>)}}

\* services that answer, except that the first request of either fetch can
\* be refused
ResolveWorlds ==
    {[reachable |-> TRUE,
      faults |-> [token |-> {Rejected("connection refused")}, role |-> {},
                  creds |-> {},
                  sts |-> {Rejected("connection refused")}],
      tokens |-> {<<"T1">>}, roles |-> {<<"my-role">>},
      docs |-> MetadataDocs,
      stsBodies |-> {b \in StsBodies : b.hasResult},
      tokenFile |-> [st |-> "ok", data |-> <<"jwt">>]]}

\* the backend every request of this gateway selects
CacheRequests ==
    {[hasVariables |-> FALSE, flag |-> Undefined],
     [hasVariables |-> TRUE, flag |-> Str(<<"1">>)]}

\* a cache miss: no file, and a shared variable unset or undecodable
InitResolve ==
    /\ env \in ResolveEnvironments
    /\ keyval \in {Undefined} \cup {Str(x) : x \in CorruptTexts}
    /\ file = [st |-> "ENOENT"]
    /\ written = [keyval |-> NoWrite, file |-> NoWrite]
    /\ last = NoCall
    /\ \E r \in CacheRequests :
           tasks = [t \in 1..NumTasks |-> [NewTask EXCEPT !.r = r]]
    /\ world \in ResolveWorlds
    /\ Clockless

ResolveStart ==
    \E t \in DOMAIN tasks, fn \in {"ec2", "web"}, n \in RoleSessionNames :
        /\ tasks[t].pc = "idle"
        /\ Step(t, resolve(tasks[t], env, keyval, file, world, fn, n))

ResolveFinish ==
    \E t \in DOMAIN tasks :
        /\ tasks[t].pc = "returned"
        /\ tasks[t].source = "fetch"
        /\ LET out == resolveAfterFetch(tasks[t], env, keyval, file)
               c == tasks[t].result
           IN  /\ tasks' = [tasks EXCEPT ![t] = out.task]
               /\ keyval' = out.cache.keyval
               /\ file' = out.cache.file
               /\ written' =
                     [keyval |-> IF "keyval" \in out.cache.writes
                                    /\ ~out.cache.raised
                                 THEN Wrote(c)
                                 ELSE written.keyval,
                      file |-> IF "file" \in out.cache.writes
                                  /\ ~out.cache.raised
                               THEN Wrote(c)
                               ELSE written.file]
        /\ UNCHANGED <<env, last, world, NOW, clock, returned>>

NextResolve ==
    \/ ResolveStart
    \/ TokenResponse \/ RoleNameResponse \/ CredentialResponse \/ StsResponse
    \/ ResolveFinish

SpecResolve == InitResolve /\ [][NextResolve]_vars

---------------------------------------------------------------------------
(* Properties of the credential cache, checked under Spec *)

IsRead == last.op = "readCredentials"
IsWrite == last.op = "writeCredentials"
IsToken == last.op = "securityToken"

\* the backend the flag of the last call selects
OnKeyval == last.r.hasVariables /\ last.r.flag = Str(<<"1">>)
OnFile == ~OnKeyval

Untouched ==
    /\ ~last.keyvalChanged /\ ~last.fileChanged
    /\ last.res.reads = {} /\ last.res.writes = {}

BothStaticSet ==
    /\ env.AWS_ACCESS_KEY_ID.t = "str" /\ env.AWS_ACCESS_KEY_ID.v # <<>>
    /\ env.AWS_SECRET_ACCESS_KEY.t = "str" /\ env.AWS_SECRET_ACCESS_KEY.v # <<>>

\* C1: with both static environment values set, readCredentials returns
\* exactly these two values with a null session token and a null expiration,
\* and neither reads nor changes the shared variable or the cache file,
\* whatever they contain and whatever the flag is
C1_StaticEnvRead ==
    IsRead /\ BothStaticSet =>
        /\ ~last.res.raised
        /\ last.res.val.t = "obj"
        /\ last.res.val.f.accessKeyId = env.AWS_ACCESS_KEY_ID
        /\ last.res.val.f.secretAccessKey = env.AWS_SECRET_ACCESS_KEY
        /\ last.res.val.f.sessionToken = Null
        /\ last.res.val.f.expiration = Null
        /\ Untouched

C1_Witness ==
    /\ IsRead /\ BothStaticSet /\ ~last.res.raised
    /\ last.res.val.f.accessKeyId = Str(<<"AKIDENV">>)
    /\ KeyvalKind(keyval) = "corrupt" /\ FileKind(file) = "corrupt"

\* C2: with the local-file backend and no static environment credentials,
\* reading a cache file whose content does not decode as JSON returns
\* undefined and does not raise
C2_CorruptFileReadsAbsent ==
    IsRead /\ ~BothStaticSet /\ OnFile /\ FileKind(file) = "corrupt" =>
        ~last.res.raised /\ last.res.val = Undefined

\* C3: with no static environment credentials, a read returns, field by
\* field, the credentials of the last successful write made to the backend
\* the read selects, whatever that backend held before the write
LastWritten == IF OnKeyval THEN written.keyval ELSE written.file

C3_RoundTrip ==
    IsRead /\ ~BothStaticSet /\ LastWritten.done =>
        /\ ~last.res.raised
        /\ last.res.val.t = "obj"
        /\ \A n \in FieldSet : last.res.val.f[n] = LastWritten.cred.f[n]

C3_Witness ==
    /\ IsRead /\ ~BothStaticSet /\ OnFile /\ written.file.done
    /\ written.file.cred.f.sessionToken = Null
    /\ last.res.val = written.file.cred

\* C7: securityToken returns the session token of the current credentials
\* when they carry one and the empty string otherwise, without raising, with
\* static environment credentials, with a cached entry (with or without a
\* token) and with no cached credentials at all
CurrentKind ==
    IF BothStaticSet THEN "static"
    ELSE IF OnKeyval THEN KeyvalKind(keyval) ELSE FileKind(file)

CachedToken ==
    LET o == JSONparse(IF OnKeyval THEN keyval.v ELSE file.data).val IN
    IF o.f.sessionToken.t = "str" THEN o.f.sessionToken ELSE EmptyStr

C7_SecurityTokenTotal ==
    IsToken /\ CurrentKind \in {"static", "valid", "absent"} =>
        /\ ~last.res.raised
        /\ last.res.val = IF CurrentKind = "valid" THEN CachedToken ELSE EmptyStr

\* C8: with both static environment values set, writeCredentials returns
\* without error for every credentials argument and leaves the shared
\* variable and the cache file unchanged
C8_StaticEnvWriteNoOp ==
    IsWrite /\ BothStaticSet => ~last.res.raised /\ Untouched

C8_Witness ==
    /\ IsWrite /\ BothStaticSet /\ last.cred \in CredObjects
    /\ ~last.res.raised
    /\ keyval = Undefined /\ file = [st |-> "ENOENT"]

\* C9 as stated: every call of writeCredentials with an empty or undefined
\* credentials argument is rejected with an error and changes neither the
\* shared variable nor the cache file
EmptyOrUndefined == last.cred \in {Undefined, Null, EmptyStr}

C9_EveryEmptyWriteRejected ==
    IsWrite /\ EmptyOrUndefined => last.res.raised /\ Untouched

\* C9 amended: when the two static environment values are not both set,
\* every call of writeCredentials whose credentials argument is undefined,
\* null or the empty string is rejected with an error and changes neither
\* the shared variable nor the cache file
C9_EmptyWriteRejectedWithoutStaticEnv ==
    IsWrite /\ ~BothStaticSet /\ EmptyOrUndefined =>
        /\ last.res.raised
        /\ last.res.err = "Cannot write invalid credentials"
        /\ Untouched

C9_Witness ==
    /\ IsWrite /\ ~BothStaticSet /\ last.cred = Undefined
    /\ last.res.raised /\ KeyvalKind(keyval) = "valid"

\* C10: with the shared-store backend and no static environment
\* credentials, a read returns undefined when the shared variable is unset
\* or empty, the decoded credentials when it holds valid JSON, and undefined
\* without raising when it fails to decode; the read leaves the variable
\* unchanged
C10_KeyvalRead ==
    IsRead /\ ~BothStaticSet /\ OnKeyval =>
        /\ ~last.res.raised
        /\ ~last.keyvalChanged
        /\ KeyvalKind(keyval) \in {"absent", "corrupt"} => last.res.val = Undefined
        /\ KeyvalKind(keyval) = "valid" =>
               last.res.val.t = "obj" /\ JSONstringify(last.res.val) = keyval.v

C10_Witness ==
    /\ IsRead /\ ~BothStaticSet /\ OnKeyval
    /\ KeyvalKind(keyval) = "corrupt"
    /\ ~last.res.raised /\ last.res.val = Undefined

\* C11: with the local-file backend and no static environment credentials,
\* a read returns undefined exactly when the file does not exist, raises the
\* error of every other I/O failure (a permission error), and leaves the
\* file unchanged in both cases
C11_FileReadAbsentOnlyOnENOENT ==
    IsRead /\ ~BothStaticSet /\ OnFile =>
        /\ (~last.res.raised /\ last.res.val = Undefined) <=> file.st = "ENOENT"
        /\ file.st = "EACCES" => last.res.raised /\ last.res.err = "EACCES"
        /\ ~last.fileChanged

C11_Witness ==
    /\ IsRead /\ ~BothStaticSet /\ OnFile
    /\ file.st = "EACCES" /\ last.res.raised /\ last.res.err = "EACCES"

---------------------------------------------------------------------------
(* Properties of the signature engine, checked under SpecSig *)

\* the lines of a string: its pieces between "\n" characters
RECURSIVE LinesFrom(_, _, _, _)
LinesFrom(str, i, cur, acc) ==
    IF i > Len(str) THEN Append(acc, cur)
    ELSE IF str[i] = "\n" THEN LinesFrom(str, i + 1, <<>>, Append(acc, cur))
    ELSE LinesFrom(str, i + 1, Append(cur, str[i]), acc)

Lines(str) == LinesFrom(str, 1, <<>>, <<>>)

HasColon(line) == \E i \in 1..Len(line) : line[i] = ":"

\* the part of a header line before its first ':'
HeaderName(line) ==
    LET i == CHOOSE k \in 1..Len(line) :
                 line[k] = ":" /\ \A j \in 1..(k - 1) : line[j] # ":"
    IN  SubSeq(line, 1, i - 1)

\* the header lines of a canonical request: the run of 'name:value' lines
\* that ends at the blank line before the signed-headers line
FirstHeaderLine(L) ==
    CHOOSE j \in 1..(Len(L) - 2) :
        /\ \A k \in j..(Len(L) - 3) : HasColon(L[k])
        /\ j = 1 \/ ~HasColon(L[j - 1])

RECURSIVE JoinNames(_, _, _)
JoinNames(L, from, to) ==
    IF from > to THEN <<>>
    ELSE HeaderName(L[from])
         \o (IF from < to THEN <<";">> ELSE <<>>)
         \o JoinNames(L, from + 1, to)

IsSplit == last.op = "splitCachedValues"
IsCanonical == last.op = "buildCanonicalRequest"
IsSigned == last.op = "signedHeaders"

FirstColon(str) ==
    IF HasColon(str)
    THEN CHOOSE k \in 1..Len(str) :
             str[k] = ":" /\ \A j \in 1..(k - 1) : str[j] # ":"
    ELSE 0

\* C4: splitCachedValues returns an empty result for an input without ':'
\* and for an input whose first ':' is its first or its last character, and
\* returns ["20240101", "abcd"] for "20240101:abcd"
C4_SplitRejectsMalformed ==
    IsSplit =>
        /\ FirstColon(last.cached) \in {0, 1, Len(last.cached)} => last.ret = <<>>
        /\ last.cached = <<"20240101", ":", "abcd">> =>
               last.ret = << <<"20240101">>, <<"abcd">> >>

\* C5: the output of buildCanonicalRequest is the lines method, URI,
\* query string, header lines, blank line, signed headers, payload hash; the
\* query-string line is present (empty) when queryParams is empty, so the
\* third line is the query string and the fourth is the 'host:' line
C5_CanonicalRequestLines ==
    IsCanonical =>
        LET L == Lines(last.ret)
            n == IF last.sessionToken.t = "str" /\ last.sessionToken.v # <<>>
                 THEN 4 ELSE 3
        IN  /\ Len(L) = n + 6
            /\ L[1] = last.method
            /\ L[2] = last.uri
            /\ L[3] = last.queryParams
            /\ L[4] = <<"host", ":">> \o last.host
            /\ L[n + 4] = <<>>
            /\ L[n + 6] = EMPTY_PAYLOAD_HASH

\* C6: signedHeaders returns 'host;x-amz-content-sha256;x-amz-date', with
\* ';x-amz-security-token' appended exactly when the session token is a
\* non-empty string, and in the output of buildCanonicalRequest the names of
\* the header lines, in order and joined with ';', are the signed-headers
\* line
TokenPresent == last.sessionToken.t = "str" /\ last.sessionToken.v # <<>>

C6_SignedHeadersMatchCanonical ==
    /\ IsSigned =>
           last.ret = <<"host", ";", "x-amz-content-sha256", ";", "x-amz-date">>
                      \o (IF TokenPresent
                          THEN <<";", "x-amz-security-token">> ELSE <<>>)
    /\ IsCanonical =>
           LET L == Lines(last.ret) IN
           /\ Len(L) >= 6
           /\ L[Len(L) - 2] = <<>>
           /\ FirstHeaderLine(L) <= Len(L) - 3
           /\ JoinNames(L, FirstHeaderLine(L), Len(L) - 3) = L[Len(L) - 1]

C6_Witness ==
    /\ IsCanonical /\ last.sessionToken = EmptyStr
    /\ last.host = <<"s3.local", ":", "9000">>
    /\ Lines(last.ret)[Len(Lines(last.ret)) - 1] = DEFAULT_SIGNED_HEADERS

\* num written with exactly size decimal digits
RECURSIVE Pow10(_)
Pow10(k) == IF k = 0 THEN 1 ELSE 10 * Pow10(k - 1)

ZeroPadded(num, size) ==
    [i \in 1..size |-> DigitChars[((num \div Pow10(size - i)) % 10) + 1]]

\* C16: for a timestamp with a year from 0 to 9999, eightDigitDate returns
\* the four-digit year, two-digit month and two-digit day (8 digits) and
\* signedDateTime returns the 16 characters YYYYMMDD'T'HHMMSS'Z';
\* _padWithLeadingZeros(num, size) returns num left-padded with zeros to
\* exactly size characters
C16_ZeroPaddedDates ==
    /\ last.op = "_padWithLeadingZeros" =>
           Len(last.ret) = last.size /\ last.ret = ZeroPadded(last.num, last.size)
    /\ last.op = "eightDigitDate" =>
           /\ Len(last.ret) = 8
           /\ last.ret = ZeroPadded(last.timestamp.year, 4)
                          \o ZeroPadded(last.timestamp.month + 1, 2)
                          \o ZeroPadded(last.timestamp.date, 2)
    /\ last.op = "signedDateTime" =>
           /\ Len(last.ret) = 16
           /\ last.ret = ZeroPadded(last.timestamp.year, 4)
                          \o ZeroPadded(last.timestamp.month + 1, 2)
                          \o ZeroPadded(last.timestamp.date, 2)
                          \o <<"T">>
                          \o ZeroPadded(last.timestamp.hours, 2)
                          \o ZeroPadded(last.timestamp.minutes, 2)
                          \o ZeroPadded(last.timestamp.seconds, 2)
                          \o <<"Z">>

\* C23: buildSigningKeyHash(secret, date, service, region) is the digest
\* keyed by the service digest over 'aws4_request', the service digest is
\* keyed by the region digest over the service, the region digest is keyed
\* by the date digest over the region, and the date digest is keyed by
\* 'AWS4' + secret over the date; with the service and the region arguments
\* exchanged the result is another digest, whose region step chains the
\* service and whose service step chains the region.
C23_SigningKeyChain ==
    last.op = "buildSigningKeyHash" =>
        LET kSigning == last.ret
            kService == kSigning.key
            kRegion == kService.key
            kDate == kRegion.key
            swapped == buildSigningKeyHash(last.kSecret, last.eightDigitDate,
                                           last.region, last.service)
        IN  /\ kSigning.t = "hmac" /\ kSigning.data = <<"aws4_request">>
            /\ kService.t = "hmac" /\ kService.data = last.service
            /\ kRegion.t = "hmac" /\ kRegion.data = last.region
            /\ kDate.t = "hmac" /\ kDate.data = last.eightDigitDate
            /\ kDate.key = Str(<<"AWS4">> \o last.kSecret)
            /\ swapped # kSigning
            /\ swapped.key.data = last.region
            /\ swapped.key.key.data = last.service

C23_Witness ==
    /\ last.op = "buildSigningKeyHash"
    /\ last.service = <<"s3">> /\ last.region = <<"us-east-1">>
    /\ last.ret.key.data = <<"s3">>
    /\ last.ret.key.key.data = <<"us-east-1">>

\* C26: whenever splitCachedValues returns two elements [date, blob], date
\* contains no ':' and date, ':' and blob joined are the input, so a blob
\* with ':' characters of its own comes back whole.
C26_SplitAtFirstColonOnly ==
    IsSplit /\ Len(last.ret) = 2 =>
        /\ ~HasColon(last.ret[1])
        /\ last.ret[1] \o <<":">> \o last.ret[2] = last.cached

C26_Witness ==
    /\ IsSplit /\ Len(last.ret) = 2
    /\ last.ret[1] = <<"20240101">>
    /\ HasColon(last.ret[2])

---------------------------------------------------------------------------
(* Further properties of the credential cache, checked under Spec *)

\* the text the backend selected by the last call holds
CachedText == IF OnKeyval THEN keyval.v ELSE file.data

\* C22: with no static environment credentials, readCredentials on a
\* backend holding a decodable entry returns that entry as it is stored
\* (encoding the returned object gives the stored text again), whatever its
\* expiration is, an expiration in the past included, and the call leaves
\* the shared variable and the cache file as they were.
C22_HitReturnedWithoutExpiryCheck ==
    IsRead /\ ~BothStaticSet /\ CurrentKind = "valid" =>
        /\ ~last.res.raised
        /\ last.res.val.t = "obj"
        /\ JSONstringify(last.res.val) = CachedText
        /\ ~last.keyvalChanged /\ ~last.fileChanged
        /\ last.res.writes = {}

C22_Witness ==
    /\ IsRead /\ ~BothStaticSet /\ CurrentKind = "valid"
    /\ ~last.res.raised /\ last.res.val.t = "obj"
    /\ Expired(last.res.val.f.expiration)

\* C24: the flag of each call selects the backend, and the backends do not
\* touch each other: a writeCredentials under the shared-store flag leaves
\* the cache file unchanged and, when it succeeds without static
\* credentials, leaves its credentials in the shared variable; a write under
\* any other flag leaves the shared variable unchanged and its credentials
\* in the file; readCredentials changes neither; and a read returns the
\* credentials of the last write made to the backend its own flag selects,
\* whatever was written to the other backend in between.
C24_BackendsIndependent ==
    /\ IsWrite /\ OnKeyval =>
           /\ ~last.fileChanged
           /\ last.res.writes \subseteq {"keyval"}
           /\ (~BothStaticSet /\ ~last.res.raised) =>
                  keyval = Str(JSONstringify(last.cred))
    /\ IsWrite /\ OnFile =>
           /\ ~last.keyvalChanged
           /\ last.res.writes \subseteq {"file"}
           /\ (~BothStaticSet /\ ~last.res.raised) =>
                  file = [st |-> "ok", data |-> JSONstringify(last.cred)]
    /\ IsRead =>
           /\ ~last.keyvalChanged /\ ~last.fileChanged
           /\ last.res.writes = {}
           /\ LastWritten.done =>
                  /\ ~last.res.raised
                  /\ last.res.val.t = "obj"
                  /\ \A n \in FieldSet :
                         last.res.val.f[n] = LastWritten.cred.f[n]

C24_Witness ==
    /\ IsRead /\ OnFile /\ ~last.res.raised
    /\ written.file.done /\ written.keyval.done
    /\ written.file.cred.f.expiration # written.keyval.cred.f.expiration
    /\ last.res.val.t = "obj"
    /\ last.res.val.f.expiration = written.file.cred.f.expiration

SelectedBackend == IF OnKeyval THEN {"keyval"} ELSE {"file"}

EnvDerived == Obj(env.AWS_ACCESS_KEY_ID, env.AWS_SECRET_ACCESS_KEY, Null, Null)

\* C25: when AWS_ACCESS_KEY_ID and AWS_SECRET_ACCESS_KEY are not both set
\* (one of them or both unset or empty), readCredentials reads the backend
\* its flag selects and returns what that backend gives, never the object
\* built from the environment; and writeCredentials with a credentials
\* object writes to the selected backend, which then holds these
\* credentials unless the file is not writable.
C25_StaticNeedsBothValues ==
    ~BothStaticSet =>
        /\ IsRead =>
               /\ last.res.reads = SelectedBackend
               /\ ~last.res.raised => last.res.val # EnvDerived
               /\ CurrentKind = "absent" =>
                      ~last.res.raised /\ last.res.val = Undefined
               /\ CurrentKind = "valid" =>
                      /\ ~last.res.raised
                      /\ JSONstringify(last.res.val) = CachedText
        /\ IsWrite /\ last.cred.t = "obj" =>
               /\ last.res.writes = SelectedBackend
               /\ last.res.raised => OnFile /\ file.st = "EACCES"
               /\ ~last.res.raised =>
                      CurrentKind = "valid"
                      /\ CachedText = JSONstringify(last.cred)

C25_Witness ==
    /\ env.AWS_ACCESS_KEY_ID = Undefined
    /\ env.AWS_SECRET_ACCESS_KEY = Str(<<"envsecret">>)
    /\ IsWrite /\ OnKeyval /\ ~last.res.raised
    /\ last.cred.t = "obj"
    /\ keyval = Str(JSONstringify(last.cred))

---------------------------------------------------------------------------
(* Properties of the fetch functions, checked under SpecFetch *)

TokenHeader == "x-aws-ec2-metadata-token"

IsTokenRequest(c) ==
    /\ c.url = EC2_IMDS_TOKEN_ENDPOINT
    /\ c.method = "PUT"
    /\ <<"x-aws-ec2-metadata-token-ttl-seconds", <<"21600">>>> \in c.headers

\* the one token header of request c has the value tok
CarriesToken(c, tok) ==
    {h \in c.headers : h[1] = TokenHeader} = {<<TokenHeader, tok>>}

IsEC2(t) == tasks[t].fn = "ec2"
IsWeb(t) == tasks[t].fn = "web"

\* C12: fetchEC2RoleCredentials requests the token with PUT and the TTL
\* header first, then the role-name listing, then the document of the role
\* named; the second and third request carry the token the first one
\* returned; an empty role name raises and no third request is issued.
C12_EC2CallOrder ==
    \A t \in DOMAIN tasks : IsEC2(t) =>
        LET c == tasks[t].calls
            a == tasks[t].answers
        IN  /\ Len(c) \in 1..3
            /\ IsTokenRequest(c[1])
            /\ Len(c) >= 2 =>
                   /\ a[1].kind = "text"
                   /\ c[2].url = EC2_IMDS_SECURITY_CREDENTIALS_ENDPOINT
                   /\ CarriesToken(c[2], a[1].text)
            /\ Len(c) = 3 =>
                   /\ a[2].kind = "text" /\ a[2].text # <<>>
                   /\ c[3].url =
                          EC2_IMDS_SECURITY_CREDENTIALS_ENDPOINT \o a[2].text
                   /\ CarriesToken(c[3], a[1].text)
            /\ (Len(a) >= 2 /\ a[2] = Text(<<>>)) =>
                   /\ tasks[t].pc = "raised"
                   /\ tasks[t].err = "No credentials available for EC2 instance"
                   /\ Len(c) = 2

C12_Witness ==
    \E t \in DOMAIN tasks :
        /\ IsEC2(t) /\ Len(tasks[t].answers) = 2
        /\ tasks[t].answers[2] = Text(<<>>)
        /\ tasks[t].pc = "raised" /\ Len(tasks[t].calls) = 2

MissingRegion == "Missing required AWS_REGION env variable"

RegionalWithoutRegion ==
    /\ ~Truthy(env.STS_ENDPOINT)
    /\ env.AWS_STS_REGIONAL_ENDPOINTS = Str(<<"regional">>)
    /\ ~Truthy(env.AWS_REGION)

\* C13: without an STS endpoint override, with the regional switch on and
\* without a region, fetchWebIdentityCredentials raises the missing-region
\* error and has issued no request.
C13_MissingRegionBeforeNetwork ==
    \A t \in DOMAIN tasks : IsWeb(t) /\ RegionalWithoutRegion =>
        /\ tasks[t].pc = "raised"
        /\ tasks[t].err = MissingRegion
        /\ tasks[t].calls = <<>>

C13_Witness ==
    \E t \in DOMAIN tasks :
        IsWeb(t) /\ RegionalWithoutRegion /\ tasks[t].pc = "raised"

\* the credentials object a run returned has exactly the four fields, with
\* the values a, s, tok, exp
Reflects(res, a, s, tok, exp) ==
    /\ res.t = "obj"
    /\ DOMAIN res.f = FieldSet
    /\ res.f.accessKeyId = a /\ res.f.secretAccessKey = s
    /\ res.f.sessionToken = tok /\ res.f.expiration = exp

\* C15: a run that returned has as its result the fields of the document it
\* received: AccessKeyId, SecretAccessKey, Token, Expiration of the metadata
\* document; AccessKeyId, SecretAccessKey, SessionToken, Expiration of the
\* Credentials object of the STS answer.
C15_ResultReflectsDocument ==
    \A t \in DOMAIN tasks : tasks[t].pc = "returned" =>
        LET a == tasks[t].answers IN
        /\ IsEC2(t) =>
               LET d == a[3].doc IN
               Reflects(tasks[t].result, d.AccessKeyId, d.SecretAccessKey,
                        d.Token, d.Expiration)
        /\ IsWeb(t) =>
               LET d == a[1].doc.Credentials IN
               Reflects(tasks[t].result, d.AccessKeyId, d.SecretAccessKey,
                        d.SessionToken, d.Expiration)

C15_Witness ==
    \E t \in DOMAIN tasks :
        /\ IsEC2(t) /\ tasks[t].pc = "returned"
        /\ tasks[t].answers[3].doc.Token # tasks[t].answers[3].doc.SessionToken
        /\ tasks[t].result.f.sessionToken = Str(<<"tok1">>)

\* C18: a rejected request ends the run with the error of the rejection and
\* is the last request of the run; a run of fetchEC2RoleCredentials issues
\* at most three requests and a run of fetchWebIdentityCredentials at most
\* one, and no run requests the same URL twice.
C18_FailurePropagatesWithoutRetry ==
    \A t \in DOMAIN tasks :
        LET c == tasks[t].calls
            a == tasks[t].answers
        IN  /\ IsEC2(t) => Len(c) <= 3
            /\ IsWeb(t) => Len(c) <= 1
            /\ \A i, j \in 1..Len(c) : i # j => c[i].url # c[j].url
            /\ \A k \in 1..Len(a) : a[k].kind = "rejected" =>
                   /\ tasks[t].pc = "raised"
                   /\ tasks[t].err = a[k].err
                   /\ Len(c) = k /\ Len(a) = k

C18_Witness ==
    \E t \in DOMAIN tasks :
        /\ IsEC2(t) /\ Len(tasks[t].answers) = 2
        /\ tasks[t].answers[2].kind = "rejected"
        /\ tasks[t].pc = "raised" /\ Len(tasks[t].calls) = 2

GlobalEndpoint == <<"https://sts.amazonaws.com">>
RegionalEndpoint(region) ==
    <<"https://sts.">> \o region \o <<".amazonaws.com">>

\* the request of task t goes to endpoint
UsesEndpoint(t, endpoint) ==
    LET url == tasks[t].calls[1].url IN
    /\ Len(url) > Len(endpoint)
    /\ SubSeq(url, 1, Len(endpoint) + 1) = endpoint \o <<"?">>

\* C20: fetchWebIdentityCredentials sends its request to STS_ENDPOINT when
\* that is set (non-empty), whatever AWS_STS_REGIONAL_ENDPOINTS and
\* AWS_REGION are, and then raises no missing-region error; otherwise to
\* https://sts.<region>.amazonaws.com when the switch is 'regional' and a
\* region is set; otherwise, the switch being unset or not 'regional', to
\* https://sts.amazonaws.com.  With a readable token file the request is
\* issued in each of these cases.
C20_StsEndpointChoice ==
    \A t \in DOMAIN tasks : IsWeb(t) =>
        LET override == Truthy(env.STS_ENDPOINT)
            regional == env.AWS_STS_REGIONAL_ENDPOINTS = Str(<<"regional">>)
            issued == Len(tasks[t].calls) = 1
        IN  /\ override =>
                   /\ tasks[t].err # MissingRegion
                   /\ world.tokenFile.st = "ok" => issued
                   /\ issued => UsesEndpoint(t, env.STS_ENDPOINT.v)
            /\ ~override /\ regional /\ Truthy(env.AWS_REGION) =>
                   /\ world.tokenFile.st = "ok" => issued
                   /\ issued => UsesEndpoint(t, RegionalEndpoint(env.AWS_REGION.v))
            /\ ~override /\ ~regional =>
                   /\ tasks[t].err # MissingRegion
                   /\ world.tokenFile.st = "ok" => issued
                   /\ issued => UsesEndpoint(t, GlobalEndpoint)

C20_Witness ==
    \E t \in DOMAIN tasks :
        /\ IsWeb(t) /\ Truthy(env.STS_ENDPOINT)
        /\ env.AWS_STS_REGIONAL_ENDPOINTS = Str(<<"regional">>)
        /\ ~Truthy(env.AWS_REGION)
        /\ Len(tasks[t].calls) = 1
        /\ UsesEndpoint(t, env.STS_ENDPOINT.v)

---------------------------------------------------------------------------
(* Termination of a fetch, checked under SpecFetchFair *)

Started == tasks[1].pc # "idle"

Finished ==
    \/ tasks[1].pc = "returned" /\ tasks[1].result.t = "obj"
    \/ tasks[1].pc = "raised" /\ tasks[1].err # "none"

\* C19: when every request is eventually answered or rejected, a run of
\* fetchEC2RoleCredentials or fetchWebIdentityCredentials that has started
\* eventually returns a credentials object or raises.
C19_StartedRunFinishes == Started ~> Finished

C19_Witness ==
    /\ tasks[1].pc = "returned"
    /\ tasks[1].fn = "ec2"
    /\ Len(tasks[1].answers) = 3

---------------------------------------------------------------------------
(* Properties of concurrent resolutions, checked under SpecResolve *)

\* the credentials value x has the four fields of y
SameCredentials(x, y) ==
    /\ x.t = "obj" /\ y.t = "obj"
    /\ \A n \in FieldSet : x.f[n] = y.f[n]

\* what a read of the backend of request r returns in the cache kv, fl
CacheRead(r, kv, fl) ==
    IF UsesKeyValStore(r) THEN _readCredentialsFromKeyValStore(r, kv, fl)
    ELSE _readCredentialsFromFile(kv, fl)

WrittenTo(r, wr) == IF UsesKeyValStore(r) THEN wr.keyval ELSE wr.file

\* task t returns fetched credentials in this step
ReturnsFetched(t) ==
    /\ tasks[t].pc # "done"
    /\ tasks'[t].pc = "done"
    /\ tasks'[t].source = "fetch"

\* C14: the step in which a resolution returns credentials it fetched, from
\* the metadata service or from STS, is the step that writes exactly these
\* credentials to the selected cache backend: when the run returns, the
\* backend holds them and they are its last write.
C14_FetchedWrittenBeforeReturn ==
    [][\A t \in DOMAIN tasks : ReturnsFetched(t) =>
          LET c == tasks'[t].result
              rd == CacheRead(tasks[t].r, keyval', file')
          IN  /\ tasks[t].pc = "returned"
              /\ c = tasks[t].result
              /\ WrittenTo(tasks[t].r, written') = Wrote(c)
              /\ ~rd.raised /\ SameCredentials(rd.val, c)]_vars

C14_Witness ==
    \E t \in DOMAIN tasks :
        /\ tasks[t].pc = "done" /\ tasks[t].source = "fetch"
        /\ IsWeb(t)
        /\ WrittenTo(tasks[t].r, written) = Wrote(tasks[t].result)

Writers == {t \in DOMAIN tasks : tasks[t].wrote.done}

AllFinished == \A t \in DOMAIN tasks : tasks[t].pc \in {"done", "raised"}

---------------------------------------------------------------------------
(* Properties of the signing dates, checked under SpecDate *)

\* C21: whatever the clock shows when they are called, all calls of
\* awsHeaderDate have returned one value and all calls of signedDate have
\* returned one value, and the first eight characters of the value of
\* awsHeaderDate are eightDigitDate of the timestamp taken at load.
C21_DatesFixedAtLoad ==
    /\ Cardinality(returned.awsHeaderDate) <= 1
    /\ Cardinality(returned.signedDate) <= 1
    /\ last.op = "awsHeaderDate" =>
           /\ last.ret \in returned.awsHeaderDate
           /\ SubSeq(last.ret, 1, 8) = eightDigitDate(NOW)
    /\ last.op = "signedDate" => last.ret \in returned.signedDate

C21_Witness ==
    /\ last.op = "awsHeaderDate"
    /\ last.at.year # NOW.year
    /\ eightDigitDate(last.at) # eightDigitDate(NOW)
    /\ SubSeq(last.ret, 1, 8) = eightDigitDate(NOW)
    /\ returned.signedDate # {}

===========================================================================
